---- MODULE Spec2Model ----
(***************************************************************************)
(* Model of WrenchDimensionCalculator.py: the dimension pipeline of the    *)
(* __main__ block and the functions it calls.                              *)
(*                                                                         *)
(* Python floats are modelled as a binary floating-point format with       *)
(* Precision significant bits and round-to-nearest, ties-to-even.  A float *)
(* is represented by the integer n standing for the value n / Unit; the    *)
(* grid of spacing 1 / Unit plays the role of the subnormal range.  Every  *)
(* arithmetic operation of the source is one correctly rounded operation   *)
(* of the model, applied in the order the source applies it.               *)
(***************************************************************************)
EXTENDS Integers, Sequences, FiniteSets, TLC

\* ------------------------------------------------------------------------
\* Bounds of the model
\* ------------------------------------------------------------------------
MaxWrenches == 2

Precision == 5

FracBits == 4

Unit == 2 ^ FracBits

\* ------------------------------------------------------------------------
\* Floating point
\* ------------------------------------------------------------------------
RECURSIVE Log2(_)
Log2(q) == IF q < 2 THEN 0 ELSE 1 + Log2(q \div 2)

\* Nearest float to the non-negative rational n / d (in grid units).
RndMag(n, d) ==
  LET q  == n \div d
      e  == IF q < 2 ^ Precision THEN 0 ELSE Log2(q) - (Precision - 1)
      D  == d * (2 ^ e)
      m  == n \div D
      r  == n % D
      up == (2 * r > D) \/ (2 * r = D /\ m % 2 = 1)
  IN  (IF up THEN m + 1 ELSE m) * (2 ^ e)

\* Nearest float to the rational n / d (in grid units), d > 0.
RndRat(n, d) == IF n < 0 THEN 0 - RndMag(0 - n, d) ELSE RndMag(n, d)

FAdd(a, b) == RndRat(a + b, 1)

FSub(a, b) == RndRat(a - b, 1)

FMul(a, b) == RndRat(a * b, Unit)

FDiv(a, b) == IF b < 0 THEN RndRat((0 - a) * Unit, 0 - b) ELSE RndRat(a * Unit, b)

FMax(a, b) == IF b > a THEN b ELSE a

\* float(n) for a Python int n
IntF(n) == RndRat(n * Unit, 1)

\* float of a decimal written with one decimal place, given in tenths
\* (float(Decimal("2.5")) is FromTenths(25); the literal 1.20 is FromTenths(12))
FromTenths(t) == RndRat(t * Unit, 10)

\* math.sqrt(2), math.sqrt(3): the floats nearest to the square roots
Sqrt2 == RndRat(1414 * Unit, 1000)

Sqrt3 == RndRat(1732 * Unit, 1000)

\* ------------------------------------------------------------------------
\* Sequences
\* ------------------------------------------------------------------------
Range(s) == {s[i] : i \in 1..Len(s)}

MaxFaultsNever(list) == FALSE

\* Python's max() raises ValueError on an empty list.
MaxFaults(list) == Len(list) = 0

RECURSIVE MaxFrom(_, _, _)
MaxFrom(list, i, m) ==
  IF i > Len(list) THEN m ELSE MaxFrom(list, i + 1, FMax(m, list[i]))

\* max(list); the empty case is never read: MaxFaults guards every call.
MaxOf(list) == IF Len(list) = 0 THEN 0 ELSE MaxFrom(list, 2, list[1])

\* ------------------------------------------------------------------------
\* Data objects
\* ------------------------------------------------------------------------
\* hole_coords of a HoleDetails: None, or one HoleCoords
None == <<>>

HoleCoords(x, y) == [x |-> x, y |-> y]

HoleDetails(hex_size, hex_long_diameter, hole_diameter, hole_coords) ==
  [hex_size |-> hex_size, hex_long_diameter |-> hex_long_diameter,
   hole_diameter |-> hole_diameter, hole_coords |-> hole_coords]

\* size is the exact decimal, in tenths of a millimetre.
create_hex_wrench(size, head_width, head_short_length) ==
  LET size_f == FromTenths(size)
  IN  [size |-> size,
       head_width |-> head_width,
       head_short_length |-> head_short_length,
       size_f |-> size_f,
       circumference |-> FMul(IntF(6), size_f),
       square |-> FMul(Sqrt2, size_f),
       area |-> FMul(FMul(FMul(FDiv(IntF(3), IntF(2)), Sqrt3), size_f), size_f)]

HexWrenchHolderParameters(lb, sp, wb, h, f, m) ==
  [lengthwise_border |-> lb, lengthwise_inner_spacing |-> sp,
   widthwise_border |-> wb, height |-> h,
   hole_enlarge_factor |-> f, hole_enlarge_min |-> m]

\* ------------------------------------------------------------------------
\* Geometry formulas
\* ------------------------------------------------------------------------
compute_hex_long_diameter(hex_size) == FMul(FDiv(IntF(2), Sqrt3), hex_size)

compute_hole_diameter_shrunk(hex_long_dia, hole_enlarge_factor, hole_enlarge_min) ==
  FMax(FSub(hex_long_dia, hole_enlarge_min), FDiv(hex_long_dia, hole_enlarge_factor))

compute_hole_diameter_sub(hex_long_dia, hole_enlarge_factor, hole_enlarge_min) ==
  FMax(FSub(hex_long_dia, hole_enlarge_min), FMul(hex_long_dia, hole_enlarge_factor))

compute_hole_diameter(hex_long_dia, hole_enlarge_factor, hole_enlarge_min) ==
  FMax(FAdd(hex_long_dia, hole_enlarge_min), FMul(hex_long_dia, hole_enlarge_factor))

compute_hole_detail(hex_size, hex_long_dia, hole_enlarge_factor, hole_enlarge_min) ==
  HoleDetails(hex_size, hex_long_dia,
              compute_hole_diameter(hex_long_dia, hole_enlarge_factor, hole_enlarge_min),
              None)

compute_holder_length(last_hole_x_center, hole_dia, lengthwise_border) ==
  FAdd(FAdd(last_hole_x_center, FDiv(hole_dia, IntF(2))), lengthwise_border)

compute_holder_width_one_border(max_handle_short_length, max_hex_diameter, width_border) ==
  FAdd(FAdd(width_border, max_handle_short_length), max_hex_diameter)

compute_holder_width(max_handle_short_length, max_hex_diameter, width_border) ==
  FAdd(FAdd(FAdd(width_border, max_handle_short_length), max_hex_diameter), width_border)

\* ------------------------------------------------------------------------
\* compute_hole_centers, statement by statement
\* ------------------------------------------------------------------------
y_center_no_border(widthwise_border, max_short_handle_length) == max_short_handle_length

y_center_of(widthwise_border, max_short_handle_length) ==
  FAdd(widthwise_border, max_short_handle_length)

half_widths_of(widths) == [i \in 1..Len(widths) |-> FDiv(widths[i], IntF(2))]

first_pre_center(lengthwise_border, first_half_width) ==
  FSub(lengthwise_border, first_half_width)

next_x_center(pre_center, half_width) == FAdd(pre_center, half_width)

next_pre_center_no_spacing(x_center, half_width, inner_spacing) ==
  FAdd(x_center, half_width)

next_pre_center(x_center, half_width, inner_spacing) ==
  FAdd(FAdd(x_center, half_width), inner_spacing)

\* ------------------------------------------------------------------------
\* List comprehensions of __main__
\* ------------------------------------------------------------------------
\* zip() stops at the shorter list.
MinLen(a, b) == IF Len(a) < Len(b) THEN Len(a) ELSE Len(b)

phase1_details(set, p) ==
  [i \in 1..Len(set) |->
     compute_hole_detail(set[i].size,
                         compute_hex_long_diameter(set[i].size_f),
                         p.hole_enlarge_factor,
                         p.hole_enlarge_min)]

spacing_widths_head_only(set, details) ==
  [i \in 1..MinLen(set, details) |-> set[i].head_width]

spacing_widths(set, details) ==
  [i \in 1..MinLen(set, details) |->
     FMax(details[i].hole_diameter, set[i].head_width)]

head_short_lengths(set) == [i \in 1..Len(set) |-> set[i].head_short_length]

hole_diameters(details) == [i \in 1..Len(details) |-> details[i].hole_diameter]

merge_details_reversed(details, coords) ==
  [i \in 1..MinLen(details, coords) |->
     HoleDetails(details[i].hex_size, details[i].hex_long_diameter,
                 details[i].hole_diameter,
                 <<coords[MinLen(details, coords) + 1 - i]>>)]

merge_details(details, coords) ==
  [i \in 1..MinLen(details, coords) |->
     HoleDetails(details[i].hex_size, details[i].hex_long_diameter,
                 details[i].hole_diameter, <<coords[i]>>)]

\* ------------------------------------------------------------------------
\* Inputs
\* ------------------------------------------------------------------------
SizeLits == {25, 100}

HeadWidthLits == {50, 240}

HeadShortLengthLits == {360, 460}

LengthwiseBorderLits == {3, 50}

InnerSpacingLits == {1, 25}

WidthwiseBorderLits == {7, 50}

HeightLits == {380}

EnlargeFactorLits == {8, 12}

EnlargeMinLits == {0 - 10, 10}

Wrenches ==
  {create_hex_wrench(s, FromTenths(w), FromTenths(l)) :
     s \in SizeLits, w \in HeadWidthLits, l \in HeadShortLengthLits}

HexSets == UNION {[1..k -> Wrenches] : k \in 0..MaxWrenches}

ParameterSets ==
  {HexWrenchHolderParameters(FromTenths(lb), FromTenths(sp), FromTenths(wb),
                             FromTenths(h), FromTenths(f), FromTenths(m)) :
     lb \in LengthwiseBorderLits, sp \in InnerSpacingLits,
     wb \in WidthwiseBorderLits, h \in HeightLits,
     f \in EnlargeFactorLits, m \in EnlargeMinLits}

\* ------------------------------------------------------------------------
\* State
\* ------------------------------------------------------------------------
VARIABLES
  hex_set,                       \* the wrench list
  hex_wrench_holder_parameters,  \* the holder parameters
  hole_details,                  \* phase-1 list, rebound to the merged list
  hex_wrench_widths,
  max_handle_short_length,
  max_hole_diameter,
  y_center, centers, half_widths, pre_center,   \* locals of compute_hole_centers
  hole_centers,
  holder_length,
  holder_width,
  pc,                            \* position in __main__
  fault_at                       \* the statement that raised, or "none"

vars == <<hex_set, hex_wrench_holder_parameters, hole_details, hex_wrench_widths,
          max_handle_short_length, max_hole_diameter, y_center, centers,
          half_widths, pre_center, hole_centers, holder_length, holder_width,
          pc, fault_at>>

inputs == <<hex_set, hex_wrench_holder_parameters>>

fold_locals == <<y_center, centers, half_widths, pre_center>>

P == hex_wrench_holder_parameters

Init ==
  /\ hex_set \in HexSets
  /\ hex_wrench_holder_parameters \in ParameterSets
  /\ hole_details = <<>>
  /\ hex_wrench_widths = <<>>
  /\ max_handle_short_length = 0
  /\ max_hole_diameter = 0
  /\ y_center = 0
  /\ centers = <<>>
  /\ half_widths = <<>>
  /\ pre_center = 0
  /\ hole_centers = <<>>
  /\ holder_length = 0
  /\ holder_width = 0
  /\ pc = "hole_details"
  /\ fault_at = "none"

Raise(where) == pc' = "fault" /\ fault_at' = where

\* lines 217-224
ComputeHoleDetails ==
  /\ pc = "hole_details"
  /\ hole_details' = phase1_details(hex_set, P)
  /\ pc' = "hex_wrench_widths"
  /\ UNCHANGED <<inputs, hex_wrench_widths, max_handle_short_length,
                 max_hole_diameter, fold_locals, hole_centers, holder_length,
                 holder_width, fault_at>>

\* lines 226-227
ComputeHexWrenchWidths ==
  /\ pc = "hex_wrench_widths"
  /\ hex_wrench_widths' = spacing_widths(hex_set, hole_details)
  /\ pc' = "max_handle_short_length"
  /\ UNCHANGED <<inputs, hole_details, max_handle_short_length,
                 max_hole_diameter, fold_locals, hole_centers, holder_length,
                 holder_width, fault_at>>

\* line 229
ComputeMaxHandleShortLength ==
  /\ pc = "max_handle_short_length"
  /\ IF MaxFaults(head_short_lengths(hex_set))
       THEN /\ Raise("max_handle_short_length")
            /\ UNCHANGED max_handle_short_length
       ELSE /\ max_handle_short_length' = MaxOf(head_short_lengths(hex_set))
            /\ pc' = "max_hole_diameter"
            /\ UNCHANGED fault_at
  /\ UNCHANGED <<inputs, hole_details, hex_wrench_widths, max_hole_diameter,
                 fold_locals, hole_centers, holder_length, holder_width>>

\* line 231
ComputeMaxHoleDiameter ==
  /\ pc = "max_hole_diameter"
  /\ IF MaxFaults(hole_diameters(hole_details))
       THEN /\ Raise("max_hole_diameter")
            /\ UNCHANGED max_hole_diameter
       ELSE /\ max_hole_diameter' = MaxOf(hole_diameters(hole_details))
            /\ pc' = "compute_hole_centers"
            /\ UNCHANGED fault_at
  /\ UNCHANGED <<inputs, hole_details, hex_wrench_widths, max_handle_short_length,
                 fold_locals, hole_centers, holder_length, holder_width>>

\* lines 233-239 and 125-129: the call, up to the loop
EnterComputeHoleCenters ==
  /\ pc = "compute_hole_centers"
  /\ y_center' = y_center_of(P.widthwise_border, max_handle_short_length)
  /\ centers' = <<>>
  /\ half_widths' = half_widths_of(hex_wrench_widths)
  /\ IF Len(hex_wrench_widths) = 0
       THEN /\ Raise("half_widths[0]")          \* IndexError
            /\ UNCHANGED pre_center
       ELSE /\ pre_center' = first_pre_center(P.lengthwise_border, half_widths'[1])
            /\ pc' = "fold"
            /\ UNCHANGED fault_at
  /\ UNCHANGED <<inputs, hole_details, hex_wrench_widths, max_handle_short_length,
                 max_hole_diameter, hole_centers, holder_length, holder_width>>

\* lines 130-133: one iteration of the loop
FoldIteration ==
  /\ pc = "fold"
  /\ Len(centers) < Len(half_widths)
  /\ LET half_width == half_widths[Len(centers) + 1]
         x_center   == next_x_center(pre_center, half_width)
     IN  /\ centers' = Append(centers, HoleCoords(x_center, y_center))
         /\ pre_center' = next_pre_center(x_center, half_width,
                                          P.lengthwise_inner_spacing)
  /\ UNCHANGED <<inputs, hole_details, hex_wrench_widths, max_handle_short_length,
                 max_hole_diameter, y_center, half_widths, hole_centers,
                 holder_length, holder_width, pc, fault_at>>

\* line 134
ReturnHoleCenters ==
  /\ pc = "fold"
  /\ Len(centers) = Len(half_widths)
  /\ hole_centers' = centers
  /\ pc' = "merge"
  /\ UNCHANGED <<inputs, hole_details, hex_wrench_widths, max_handle_short_length,
                 max_hole_diameter, fold_locals, holder_length, holder_width,
                 fault_at>>

\* lines 242-249
MergeHoleDetails ==
  /\ pc = "merge"
  /\ hole_details' = merge_details(hole_details, hole_centers)
  /\ pc' = "holder_length"
  /\ UNCHANGED <<inputs, hex_wrench_widths, max_handle_short_length,
                 max_hole_diameter, fold_locals, hole_centers, holder_length,
                 holder_width, fault_at>>

\* lines 252-255
ComputeHolderLength ==
  /\ pc = "holder_length"
  /\ IF Len(hole_details) = 0
       THEN /\ Raise("hole_details[-1]")        \* IndexError
            /\ UNCHANGED holder_length
       ELSE /\ holder_length' =
                 compute_holder_length(
                   hole_details[Len(hole_details)].hole_coords[1].x,
                   hole_details[Len(hole_details)].hex_long_diameter,
                   P.lengthwise_border)
            /\ pc' = "holder_width"
            /\ UNCHANGED fault_at
  /\ UNCHANGED <<inputs, hole_details, hex_wrench_widths, max_handle_short_length,
                 max_hole_diameter, fold_locals, hole_centers, holder_width>>

\* lines 258-261
ComputeHolderWidth ==
  /\ pc = "holder_width"
  /\ IF MaxFaults(head_short_lengths(hex_set))
       THEN /\ Raise("holder_width")
            /\ UNCHANGED holder_width
       ELSE /\ holder_width' =
                 compute_holder_width(MaxOf(head_short_lengths(hex_set)),
                                      max_hole_diameter, P.widthwise_border)
            /\ pc' = "report"
            /\ UNCHANGED fault_at
  /\ UNCHANGED <<inputs, hole_details, hex_wrench_widths, max_handle_short_length,
                 max_hole_diameter, fold_locals, hole_centers, holder_length>>

\* lines 267-281: the report is printed and the process ends
PrintReport ==
  /\ pc = "report"
  /\ pc' = "done"
  /\ UNCHANGED <<inputs, hole_details, hex_wrench_widths, max_handle_short_length,
                 max_hole_diameter, fold_locals, hole_centers, holder_length,
                 holder_width, fault_at>>

Next ==
  \/ ComputeHoleDetails
  \/ ComputeHexWrenchWidths
  \/ ComputeMaxHandleShortLength
  \/ ComputeMaxHoleDiameter
  \/ EnterComputeHoleCenters
  \/ FoldIteration
  \/ ReturnHoleCenters
  \/ MergeHoleDetails
  \/ ComputeHolderLength
  \/ ComputeHolderWidth
  \/ PrintReport

Spec == Init /\ [][Next]_vars

\* ------------------------------------------------------------------------
\* Properties
\* ------------------------------------------------------------------------
lengthwise_border == P.lengthwise_border

inner_spacing == P.lengthwise_inner_spacing

widthwise_border == P.widthwise_border

IsMax(m, list) ==
  /\ \E i \in 1..Len(list) : list[i] = m
  /\ \A i \in 1..Len(list) : list[i] <= m

Placed == pc \in {"holder_length", "holder_width", "report", "done"}

Sized == pc \in {"report", "done"}

\* C1 as stated: the difference of adjacent centers equals
\* half_width[i] + inner_spacing + half_width[i+1] exactly, whether the two
\* sides are evaluated in floating point or over the reals.
C1_AdjacentDifferenceExact ==
  \A i \in 1..(Len(centers) - 1) :
    \/ FSub(centers[i + 1].x, centers[i].x)
         = FAdd(FAdd(half_widths[i], inner_spacing), half_widths[i + 1])
    \/ centers[i + 1].x - centers[i].x
         = half_widths[i] + inner_spacing + half_widths[i + 1]

\* C1 (amended): after every iteration of the fold, each center is the
\* floating-point sum ((x_center[i] + half_width[i]) + inner_spacing)
\* + half_width[i+1], added in that order, with half_width[k] =
\* hex_wrench_widths[k] / 2.
C1_AdjacentCentersFold ==
  /\ pc = "fold" =>
       /\ Len(half_widths) = Len(hex_wrench_widths)
       /\ \A k \in 1..Len(half_widths) :
            half_widths[k] = FDiv(hex_wrench_widths[k], IntF(2))
  /\ \A i \in 1..(Len(centers) - 1) :
       centers[i + 1].x =
         FAdd(FAdd(FAdd(centers[i].x, half_widths[i]), inner_spacing),
              half_widths[i + 1])

C1_Witness ==
  /\ pc = "fold"
  /\ Len(centers) >= 2
  /\ half_widths[1] # half_widths[2]

\* C2 as stated: the first hole's left edge is flush against the lengthwise
\* border, x_center[0] - half_width[0] = lengthwise_border.
C2_FirstHoleFlush ==
  Len(centers) >= 1 =>
    \/ FSub(centers[1].x, half_widths[1]) = lengthwise_border
    \/ centers[1].x - half_widths[1] = lengthwise_border

\* C3 as stated: holder_length is the last x center plus half the enlarged
\* hole diameter of the last wrench plus the lengthwise border.
C3_HolderLengthUsesHoleDiameter ==
  pc \in {"holder_width", "report", "done"} =>
    LET last == hole_details[Len(hole_details)]
    IN  \/ holder_length =
             FAdd(FAdd(last.hole_coords[1].x, FDiv(last.hole_diameter, IntF(2))),
                  lengthwise_border)
        \/ 2 * holder_length =
             2 * last.hole_coords[1].x + last.hole_diameter + 2 * lengthwise_border

\* C4: every emitted center has the same y, widthwise_border plus the
\* largest head_short_length of the wrench list, at every step of the fold
\* and in the lists built from it.
C4_SharedYCenter ==
  \A m \in Range(head_short_lengths(hex_set)) :
    IsMax(m, head_short_lengths(hex_set)) =>
      /\ \A i \in 1..Len(centers) : centers[i].y = FAdd(widthwise_border, m)
      /\ \A i \in 1..Len(hole_centers) :
           hole_centers[i].y = FAdd(widthwise_border, m)
      /\ Placed => \A i \in 1..Len(hole_details) :
           hole_details[i].hole_coords[1].y = FAdd(widthwise_border, m)

C4_Witness ==
  /\ Placed
  /\ Len(hole_details) >= 2
  /\ hex_set[1].head_short_length > hex_set[2].head_short_length
  /\ hole_details[1].hole_coords[1].y = hole_details[2].hole_coords[1].y

\* C5 as stated: holder_width = 2 * widthwise_border + max(head_short_length)
\* + max(hole_diameter), in floating point or over the reals.
C5_HolderWidthTwiceBorder ==
  Sized =>
    \A msl \in Range(head_short_lengths(hex_set)),
       mhd \in Range(hole_diameters(hole_details)) :
      (IsMax(msl, head_short_lengths(hex_set))
         /\ IsMax(mhd, hole_diameters(hole_details))) =>
        \/ holder_width =
             FAdd(FAdd(FMul(IntF(2), widthwise_border), msl), mhd)
        \/ holder_width = 2 * widthwise_border + msl + mhd

\* C5 (amended): holder_width is the floating-point sum
\* ((widthwise_border + max(head_short_length)) + max(hole_diameter))
\* + widthwise_border, added in that order, the two maxima taken
\* independently over the wrench list.
C5_HolderWidthSum ==
  Sized =>
    \A msl \in Range(head_short_lengths(hex_set)),
       mhd \in Range(hole_diameters(hole_details)) :
      (IsMax(msl, head_short_lengths(hex_set))
         /\ IsMax(mhd, hole_diameters(hole_details))) =>
        holder_width =
          FAdd(FAdd(FAdd(widthwise_border, msl), mhd), widthwise_border)

C5_Witness ==
  /\ Sized
  /\ Len(hex_set) >= 2
  /\ hex_set[1].head_short_length > hex_set[2].head_short_length
  /\ hole_details[1].hole_diameter < hole_details[2].hole_diameter

\* ------------------------------------------------------------------------
\* compute_hole_diameter as a function of its enlargement parameters
\* ------------------------------------------------------------------------
TestFactors == {FromTenths(t) : t \in {5, 8, 10, 12, 20}}

TestMins == {FromTenths(t) : t \in {0 - 10, 0, 1, 10, 20}}

LongDiameters == {hole_details[i].hex_long_diameter : i \in 1..Len(hole_details)}

One == IntF(1)

\* C6: with enlarge_factor >= 1 and enlarge_min >= 0 the hole diameter is
\* never smaller than the long diameter it is computed from.
C6_HoleNotSmallerThanWrench ==
  /\ (P.hole_enlarge_factor >= One /\ P.hole_enlarge_min >= 0) =>
       \A i \in 1..Len(hole_details) :
         hole_details[i].hole_diameter >= hole_details[i].hex_long_diameter
  /\ pc = "hex_wrench_widths" =>
       \A d \in LongDiameters, f \in TestFactors, m \in TestMins :
         (f >= One /\ m >= 0) => compute_hole_diameter(d, f, m) >= d

C6_Witness ==
  /\ pc = "hex_wrench_widths"
  /\ Len(hole_details) >= 1
  /\ P.hole_enlarge_factor > One
  /\ P.hole_enlarge_min > 0
  /\ hole_details[1].hole_diameter > hole_details[1].hex_long_diameter

\* C7: for a long diameter d > 0 the hole diameter is non-decreasing in
\* enlarge_factor with enlarge_min fixed, and in enlarge_min with
\* enlarge_factor fixed.
C7_HoleDiameterMonotone ==
  pc = "hex_wrench_widths" => \A d \in LongDiameters :
    d > 0 =>
      /\ \A f1 \in TestFactors, f2 \in TestFactors, m \in TestMins :
           f1 <= f2 =>
             compute_hole_diameter(d, f1, m) <= compute_hole_diameter(d, f2, m)
      /\ \A m1 \in TestMins, m2 \in TestMins, f \in TestFactors :
           m1 <= m2 =>
             compute_hole_diameter(d, f, m1) <= compute_hole_diameter(d, f, m2)

C7_Witness ==
  pc = "hex_wrench_widths" /\ \E d \in LongDiameters :
    /\ d > 0
    /\ \E f1 \in TestFactors, f2 \in TestFactors, m \in TestMins :
         compute_hole_diameter(d, f1, m) < compute_hole_diameter(d, f2, m)
    /\ \E m1 \in TestMins, m2 \in TestMins, f \in TestFactors :
         compute_hole_diameter(d, f, m1) < compute_hole_diameter(d, f, m2)

\* C8: the merge yields one entry per wrench, in input order: entry i keeps
\* the size of wrench i and the phase-1 diameters of entry i, and carries
\* the i-th center emitted by the fold, which emits one center per wrench.
C8_MergeIndexAligned ==
  [][pc = "merge" =>
       /\ Len(hole_centers) = Len(hex_set)
       /\ Len(hole_details') = Len(hex_set)
       /\ \A i \in 1..Len(hex_set) :
            /\ hole_details'[i].hex_size = hex_set[i].size
            /\ hole_details'[i].hex_long_diameter = hole_details[i].hex_long_diameter
            /\ hole_details'[i].hole_diameter = hole_details[i].hole_diameter
            /\ hole_details'[i].hole_coords # None
            /\ hole_details'[i].hole_coords[1] = hole_centers[i]
            /\ hole_centers[i].x = next_x_center(
                 IF i = 1
                   THEN first_pre_center(lengthwise_border, half_widths[1])
                   ELSE next_pre_center(hole_centers[i - 1].x, half_widths[i - 1],
                                        inner_spacing),
                 FDiv(FMax(hole_details[i].hole_diameter, hex_set[i].head_width),
                      IntF(2)))]_vars

C8_Witness ==
  /\ pc = "holder_length"
  /\ Len(hole_details) >= 2
  /\ hex_set[1].size # hex_set[2].size
  /\ hole_details[1].hole_coords # hole_details[2].hole_coords

\* C9 as stated: on an empty wrench list the statement that faults is the
\* last-hole access made for holder_length.
C9_FaultsAtLastHole ==
  (Len(hex_set) = 0 /\ pc = "fault") => fault_at = "hole_details[-1]"

\* C9 (amended): on an empty wrench list the run ends in a fault and never
\* in a report; the statement that faults is the max() over the
\* head_short_length list, after the phase-1 details and the spacing widths
\* were built (both empty) and before compute_hole_centers is called.
C9_FaultsAtMax ==
  Len(hex_set) = 0 =>
    /\ pc \in {"hole_details", "hex_wrench_widths", "max_handle_short_length",
               "fault"}
    /\ pc = "fault" =>
         /\ fault_at = "max_handle_short_length"
         /\ hole_details = <<>>
         /\ hex_wrench_widths = <<>>
         /\ hole_centers = <<>>

C9_Witness == Len(hex_set) = 0 /\ pc = "fault"

\* C10 as stated: with inner_spacing >= 0 the holes of adjacent wrenches are
\* separated by at least the inner spacing, (x_center[i+1] -
\* hole_diameter[i+1] / 2) - (x_center[i] + hole_diameter[i] / 2) >=
\* inner_spacing, in floating point or over the reals.
C10_GapAtLeastSpacing ==
  inner_spacing >= 0 =>
    \A i \in 1..(Len(centers) - 1) :
      \/ FSub(FSub(centers[i + 1].x, FDiv(hole_details[i + 1].hole_diameter, IntF(2))),
              FAdd(centers[i].x, FDiv(hole_details[i].hole_diameter, IntF(2))))
           >= inner_spacing
      \/ (2 * centers[i + 1].x - hole_details[i + 1].hole_diameter)
           - (2 * centers[i].x + hole_details[i].hole_diameter)
           >= 2 * inner_spacing

\* C10 (amended): with inner_spacing >= 0, each center is at least the
\* floating-point sum ((x_center[i] + hole_diameter[i] / 2) + inner_spacing)
\* + hole_diameter[i+1] / 2, added in that order; and when all the widths
\* are positive the x centers are non-decreasing in input order.
C10_HolesSeparated ==
  inner_spacing >= 0 =>
    \A i \in 1..(Len(centers) - 1) :
      /\ centers[i + 1].x >=
           FAdd(FAdd(FAdd(centers[i].x,
                          FDiv(hole_details[i].hole_diameter, IntF(2))),
                     inner_spacing),
                FDiv(hole_details[i + 1].hole_diameter, IntF(2)))
      /\ (\A k \in 1..Len(hex_wrench_widths) : hex_wrench_widths[k] > 0) =>
           centers[i + 1].x >= centers[i].x

C10_Witness ==
  /\ pc = "fold"
  /\ Len(centers) >= 2
  /\ hole_details[1].hole_diameter > hex_set[1].head_width
  /\ hole_details[2].hole_diameter < hex_set[2].head_width

====
